---- MODULE Spec2Model ----
(***************************************************************************)
(* Model of app.py, the Streamlit dashboard of Greenland rare-earth        *)
(* deposits.  Streamlit re-executes the whole script on every widget       *)
(* change, so every action below is "set one widget, then run the script   *)
(* from top to bottom": load_data, the sidebar filter, the Deposit         *)
(* Analysis tab's primary-deposit lookup and the Scenario Modeling tab.    *)
(*                                                                         *)
(* Numbers.  Scores and the investment are decimal fractions in the code   *)
(* (float64).  They are held here as integers in thousandths (Milli), the  *)
(* finest grain the arithmetic produces: slider step 0.5 * 3 * 0.15 =      *)
(* 0.225.  chinese_stake_pct is held in hundredths (9.21 -> 921),          *)
(* resource_mt in tenths, treo_grade_pct in hundredths.                    *)
(*                                                                         *)
(* Data frames are objects: a variable of the script holds a reference     *)
(* into heap, and a table is a function from pandas index labels to rows.  *)
(*                                                                         *)
(* Specifications.  Spec: one session on the dataset, sidebar and scenario *)
(* widgets.  SpecRow: the scenario computation on one-row tables.          *)
(* SpecInvest: the same on investment values that bypass the slider.       *)
(* SpecSessions: several sessions of one server, their runs interleaved    *)
(* block by block.                                                         *)
(***************************************************************************)
EXTENDS Integers, Sequences, FiniteSets, TLC

VARIABLES
    score_range,        \* sidebar slider, <<lo, hi>> in whole points
    ownership_filter,   \* sidebar multiselect
    uranium_filter,     \* sidebar multiselect
    status_filter,      \* sidebar multiselect
    uranium_scenario,   \* tab3 radio
    chinese_scenario,   \* tab3 radio
    infra_boost,        \* tab3 slider, in thousandths of $B
    price_scenario,     \* tab3 select_slider
    cache,              \* the table memoised by st.cache_data for load_data
    heap,               \* data-frame objects of the last script run
    df,                 \* reference: the table returned by load_data()
    filtered_df,        \* reference: the filtered table
    scenario_df,        \* reference: the scenario table, NoRef if not reached
    error,              \* "none", or the exception that stopped the last run
    sess,               \* several sessions on one server: each session's widgets,
                        \* script variables and position in its run
    store               \* several sessions on one server: the objects of the process

vars == <<score_range, ownership_filter, uranium_filter, status_filter,
          uranium_scenario, chinese_scenario, infra_boost, price_scenario,
          cache, heap, df, filtered_df, scenario_df, error, sess, store>>

\* The variables of the one-session model
one_session == <<score_range, ownership_filter, uranium_filter, status_filter,
                 uranium_scenario, chinese_scenario, infra_boost, price_scenario,
                 cache, heap, df, filtered_df, scenario_df, error>>

----------------------------------------------------------------------------
(* Fixed-point unit and small helpers *)

Milli == 1000

Min(a, b) == IF a <= b THEN a ELSE b
Max(a, b) == IF a >= b THEN a ELSE b
Abs(a) == IF a >= 0 THEN a ELSE -a

\* numpy round(0) of n/d for n >= 0: nearest integer, ties to even
RoundDiv(n, d) ==
    LET q == n \div d
        r == n % d
    IN  IF 2 * r < d THEN q
        ELSE IF 2 * r > d THEN q + 1
        ELSE IF q % 2 = 0 THEN q ELSE q + 1

----------------------------------------------------------------------------
(* load_data: the literal dataset, pandas index 0..14 (names in ASCII) *)

NumRows == 15

deposit_name == <<"Tanbreez (Kringlerne)", "Kvanefjeld", "Sarfartoq", "Motzfeldt",
                  "Ilimaussaq Complex", "Tikiusaaq", "Qeqertaasaq", "Milne Land",
                  "Niaqornaarsuk", "Qaqarssuk", "Kangerlussuaq", "Gardar South",
                  "Narsaq Area", "Ivigtut Area", "Skaergaard">>
latitude_x100 == <<6087, 6098, 6648, 6117, 6095, 6422, 6925, 7075, 6045, 6612, 6702,
                   6075, 6092, 6120, 6818>>
longitude_x100 == <<-4588, -4592, -5117, -4508, -4585, -5195, -5350, -2650, -4525,
                    -5275, -5070, -4600, -4608, -4817, -3175>>
resource_mt_x10 == <<40000, 10100, 86, 3400, 5000, 250, 150, 450, 1200, 350, 750,
                     20000, 1800, 500, 650>>
treo_grade_pct_x100 == <<60, 110, 200, 25, 80, 150, 90, 65, 45, 180, 55, 70, 95, 30, 25>>
heavy_ree_pct == <<30, 12, 15, 8, 18, 10, 12, 8, 14, 6, 9, 20, 11, 5, 7>>
owner == <<"Critical Metals Corp", "Energy Transition Minerals", "Hudson Resources",
           "Regency Mines", "Various", "Unlicensed", "Unlicensed", "GreenRock Resources",
           "Tanbreez Mining", "NunaMinerals", "Government", "Multiple", "ETM",
           "Historical", "Platina Resources">>
chinese_stake_pct_x100 == <<0, 921, 0, 0, 500, 0, 0, 0, 0, 0, 0, 300, 921, 0, 0>>
status == <<"Advancing", "Blocked", "Permitted", "Exploration", "Multiple",
            "Prospect", "Prospect", "Exploration", "Exploration", "Abandoned",
            "Reserved", "Multiple", "Uncertain", "Closed", "PGE Focus">>
uranium_ppm == <<15, 285, 45, 60, 120, 30, 25, 40, 55, 20, 35, 150, 220, 15, 10>>
strategic_score == <<80, 52, 61, 48, 58, 42, 35, 40, 55, 38, 45, 62, 48, 25, 32>>
geological_score == <<85, 90, 70, 55, 75, 60, 50, 45, 65, 55, 50, 70, 60, 30, 40>>
regulatory_score == <<90, 20, 75, 60, 50, 70, 70, 65, 70, 50, 40, 45, 30, 80, 75>>
ownership_score == <<95, 50, 85, 80, 60, 90, 90, 85, 85, 80, 70, 65, 50, 85, 80>>
infrastructure_score == <<60, 65, 40, 55, 60, 30, 20, 25, 50, 35, 45, 70, 55, 60, 35>>
geopolitical_score == <<70, 55, 50, 40, 55, 35, 30, 40, 45, 30, 50, 60, 50, 20, 25>>
discovery_year == <<2007, 1956, 1995, 1962, 1806, 2010, 2015, 2008, 2005, 1990, 2000,
                    1960, 1960, 1806, 1930>>
ice_free_months == <<4, 4, 3, 4, 4, 3, 2, 2, 4, 3, 3, 4, 4, 4, 2>>
port_distance_km == <<15, 12, 180, 25, 15, 200, 350, 400, 20, 150, 120, 18, 15, 30, 280>>

\* lambda x: 'Chinese Exposure' if x > 0 else 'Western Control'
OwnershipType(stake) == IF stake > 0 THEN "Chinese Exposure" ELSE "Western Control"

\* lambda x: 'Blocked (>100 ppm)' if x > 100 else 'Clear (<100 ppm)'
UraniumStatus(ppm) == IF ppm > 100 THEN "Blocked (>100 ppm)" ELSE "Clear (<100 ppm)"

\* pd.cut(bins=[0, 40, 60, 80, 100]): right-closed bins, NaN outside (0, 100]
ScoreCategory(s) ==
    IF s <= 0 THEN "NaN"
    ELSE IF s <= 40 * Milli THEN "Low"
    ELSE IF s <= 60 * Milli THEN "Medium"
    ELSE IF s <= 80 * Milli THEN "High"
    ELSE IF s <= 100 * Milli THEN "Very High"
    ELSE "NaN"

\* (resource_mt * treo_grade_pct / 100 * 1000).round(0)
ContainedTreoKt(res_x10, grade_x100) == RoundDiv(res_x10 * grade_x100, 100)

\* (contained_treo_kt * heavy_ree_pct / 100).round(0)
ContainedHreeKt(treo_kt, heavy) == RoundDiv(treo_kt * heavy, 100)

\* The derived columns added to one raw row
WithDerived(r) ==
    LET treo == ContainedTreoKt(r.resource_mt, r.treo_grade_pct)
    IN  [deposit_name |-> r.deposit_name,
         latitude |-> r.latitude,
         longitude |-> r.longitude,
         owner |-> r.owner,
         discovery_year |-> r.discovery_year,
         ice_free_months |-> r.ice_free_months,
         port_distance_km |-> r.port_distance_km,
         resource_mt |-> r.resource_mt,
         treo_grade_pct |-> r.treo_grade_pct,
         heavy_ree_pct |-> r.heavy_ree_pct,
         chinese_stake_pct |-> r.chinese_stake_pct,
         status |-> r.status,
         uranium_ppm |-> r.uranium_ppm,
         strategic_score |-> r.strategic_score,
         geological_score |-> r.geological_score,
         regulatory_score |-> r.regulatory_score,
         ownership_score |-> r.ownership_score,
         infrastructure_score |-> r.infrastructure_score,
         geopolitical_score |-> r.geopolitical_score,
         ownership_type |-> OwnershipType(r.chinese_stake_pct),
         uranium_status |-> UraniumStatus(r.uranium_ppm),
         score_category |-> ScoreCategory(r.strategic_score),
         contained_treo_kt |-> treo,
         contained_hree_kt |-> ContainedHreeKt(treo, r.heavy_ree_pct)]

load_data ==
    [i \in 0 .. NumRows - 1 |->
        WithDerived(
            [deposit_name |-> deposit_name[i + 1],
             latitude |-> latitude_x100[i + 1],
             longitude |-> longitude_x100[i + 1],
             owner |-> owner[i + 1],
             discovery_year |-> discovery_year[i + 1],
             ice_free_months |-> ice_free_months[i + 1],
             port_distance_km |-> port_distance_km[i + 1],
             resource_mt |-> resource_mt_x10[i + 1],
             treo_grade_pct |-> treo_grade_pct_x100[i + 1],
             heavy_ree_pct |-> heavy_ree_pct[i + 1],
             chinese_stake_pct |-> chinese_stake_pct_x100[i + 1],
             status |-> status[i + 1],
             uranium_ppm |-> uranium_ppm[i + 1],
             strategic_score |-> strategic_score[i + 1] * Milli,
             geological_score |-> geological_score[i + 1] * Milli,
             regulatory_score |-> regulatory_score[i + 1] * Milli,
             ownership_score |-> ownership_score[i + 1] * Milli,
             infrastructure_score |-> infrastructure_score[i + 1] * Milli,
             geopolitical_score |-> geopolitical_score[i + 1] * Milli])]

----------------------------------------------------------------------------
(* Data-frame objects *)

NoRef == 0

\* A new data-frame object holding table t; its reference is the next free id
NewFrame(h, t) ==
    LET ref == Cardinality(DOMAIN h) + 1
    IN  [heap |-> [o \in DOMAIN h \cup {ref} |-> IF o = ref THEN t ELSE h[o]],
         ref |-> ref]

\* Variant: the assignment without .copy() binds the same object
DataFrameAlias(h, ref) == [heap |-> h, ref |-> ref]

\* DataFrame.copy(): a new object with the same rows
DataFrameCopy(h, ref) == NewFrame(h, h[ref])

\* Variant: the masked rows selected (frame = frame[mask]) and then changed
AddWhereOnly(t, mask, col, delta) ==
    [i \in DOMAIN t \cap mask |-> [t[i] EXCEPT ![col] = @ + delta]]

\* frame.loc[mask, col] += delta, in place; mask is the set of index labels
\* at which the boolean Series is True
AddWhere(t, mask, col, delta) ==
    [i \in DOMAIN t |->
        IF i \in mask THEN [t[i] EXCEPT ![col] = @ + delta] ELSE t[i]]

\* frame[col] += delta, in place
AddAll(t, col, delta) == [i \in DOMAIN t |-> [t[i] EXCEPT ![col] = @ + delta]]

----------------------------------------------------------------------------
(* Sidebar filter, lines 321-327: boolean indexing returns a new table that *)
(* keeps the index labels of the selected rows                             *)

Selected(r, range, own, ura, stat) ==
    /\ r.strategic_score >= range[1] * Milli
    /\ r.strategic_score <= range[2] * Milli
    /\ r.ownership_type \in own
    /\ r.uranium_status \in ura
    /\ r.status \in stat

ApplyFilters(t, range, own, ura, stat) ==
    LET keep == {i \in DOMAIN t : Selected(t[i], range, own, ura, stat)}
    IN  [i \in keep |-> t[i]]

----------------------------------------------------------------------------
(* Tab 3, Scenario Modeling, lines 826-854 *)

UraniumBanThreshold == 100
StricterThreshold == 50

\* Variants: the comparisons made inclusive
HasUraniumFrom100(r) == r.uranium_ppm >= UraniumBanThreshold
HasUraniumFrom50(r) == r.uranium_ppm >= StricterThreshold
HasAnyStake(r) == r.chinese_stake_pct >= 0

HasUraniumAbove100(r) == r.uranium_ppm > UraniumBanThreshold
HasUraniumAbove50(r) == r.uranium_ppm > StricterThreshold
HasChineseStake(r) == r.chinese_stake_pct > 0

\* The boolean Series of each statement, evaluated on the table as it is then
MaskAbove100(t) == {i \in DOMAIN t : HasUraniumAbove100(t[i])}
MaskAbove50(t) == {i \in DOMAIN t : HasUraniumAbove50(t[i])}
MaskChineseStake(t) == {i \in DOMAIN t : HasChineseStake(t[i])}

\* Uranium ban impact
UraniumImpact(t, uranium) ==
    IF uranium = "Ban Lifted"
    THEN AddWhere(AddWhere(t, MaskAbove100(t), "regulatory_score", 40 * Milli),
                  MaskAbove100(t), "strategic_score", 15 * Milli)
    ELSE IF uranium = "Stricter Limits (50 ppm)"
    THEN AddWhere(AddWhere(t, MaskAbove50(t), "regulatory_score", -30 * Milli),
                  MaskAbove50(t), "strategic_score", -10 * Milli)
    ELSE t

\* Variant: every setting but 'Complete Ban' takes the relaxed branch
ChineseImpactElse(t, chinese) ==
    IF chinese = "Complete Ban"
    THEN AddWhere(AddWhere(t, MaskChineseStake(t), "ownership_score", -20 * Milli),
                  MaskChineseStake(t), "strategic_score", -8 * Milli)
    ELSE AddAll(t, "geopolitical_score", -10 * Milli)

\* Variant: the relaxed branch masked by the stake, like the ban branch
ChineseImpactMasked(t, chinese) ==
    IF chinese = "Complete Ban"
    THEN AddWhere(AddWhere(t, MaskChineseStake(t), "ownership_score", -20 * Milli),
                  MaskChineseStake(t), "strategic_score", -8 * Milli)
    ELSE IF chinese = "Restrictions Relaxed"
    THEN AddWhere(t, MaskChineseStake(t), "geopolitical_score", -10 * Milli)
    ELSE t

\* Variant: the relaxed branch written to geological_score
ChineseImpactGeological(t, chinese) ==
    IF chinese = "Complete Ban"
    THEN AddWhere(AddWhere(t, MaskChineseStake(t), "ownership_score", -20 * Milli),
                  MaskChineseStake(t), "strategic_score", -8 * Milli)
    ELSE IF chinese = "Restrictions Relaxed"
    THEN AddAll(t, "geological_score", -10 * Milli)
    ELSE t

\* Chinese investment impact
ChineseImpact(t, chinese) ==
    IF chinese = "Complete Ban"
    THEN AddWhere(AddWhere(t, MaskChineseStake(t), "ownership_score", -20 * Milli),
                  MaskChineseStake(t), "strategic_score", -8 * Milli)
    ELSE IF chinese = "Restrictions Relaxed"
    THEN AddAll(t, "geopolitical_score", -10 * Milli)
    ELSE t

\* Variant: no cap on the impact
InfraImpactUncapped(boost) == boost * 3

\* infra_impact = min(infra_boost * 3, 20)
InfraImpact(boost) == Min(boost * 3, 20 * Milli)

\* infra_impact * 0.15
StrategicShare(impact) == (impact * 15) \div 100

\* Variant: the guard written as 'not zero'
InfraBoostNonZero(t, boost) ==
    IF boost # 0
    THEN AddAll(AddAll(t, "infrastructure_score", InfraImpact(boost)),
                "strategic_score", StrategicShare(InfraImpact(boost)))
    ELSE t

\* Infrastructure boost
InfraBoost(t, boost) ==
    IF boost > 0
    THEN AddAll(AddAll(t, "infrastructure_score", InfraImpact(boost)),
                "strategic_score", StrategicShare(InfraImpact(boost)))
    ELSE t

ClippedCols == <<"regulatory_score", "ownership_score", "infrastructure_score",
                 "geopolitical_score", "strategic_score">>

\* Variant: capped at 100 but not floored at 0
ClipUpperOnly(v) == Min(v, 100 * Milli)

\* Series.clip(0, 100)
Clip(v) == IF v < 0 THEN 0 ELSE IF v > 100 * Milli THEN 100 * Milli ELSE v

\* scenario_df[col] = scenario_df[col].clip(0, 100)
ClipCol(t, col) == [i \in DOMAIN t |-> [t[i] EXCEPT ![col] = Clip(@)]]

\* for col in [...]: the five columns in turn
ClipCols(t) ==
    ClipCol(ClipCol(ClipCol(ClipCol(ClipCol(t, ClippedCols[1]), ClippedCols[2]),
                            ClippedCols[3]), ClippedCols[4]), ClippedCols[5])

\* scenario_df['score_change'] = scenario_df['strategic_score'] - filtered_df['strategic_score']
\* (aligned on the index; the two tables have the same labels)
ScoreChange(t, base) ==
    [i \in DOMAIN t |->
        t[i] @@ ("score_change" :> (t[i].strategic_score - base[i].strategic_score))]

\* Variant: the clip applied after each of the three impacts
ScenarioStepsClipEach(h, s, f, uranium, chinese, boost) ==
    [h EXCEPT ![s] =
        ScoreChange(
            ClipCols(InfraBoost(ClipCols(ChineseImpact(ClipCols(UraniumImpact(@, uranium)),
                                                       chinese)),
                                boost)),
            h[f])]

\* Variant: score_change taken before the clip
ScenarioStepsChangeFirst(h, s, f, uranium, chinese, boost) ==
    [h EXCEPT ![s] =
        ClipCols(ScoreChange(InfraBoost(ChineseImpact(UraniumImpact(@, uranium), chinese),
                                        boost), h[f]))]

\* The adjustments, written through the reference s into the heap
WriteScoreChange(h, s, f) == [h EXCEPT ![s] = ScoreChange(@, h[f])]

ScenarioSteps(h, s, f, uranium, chinese, boost) ==
    WriteScoreChange(
        [h EXCEPT ![s] = ClipCols(InfraBoost(ChineseImpact(UraniumImpact(@, uranium),
                                                           chinese), boost))],
        s, f)

EmptyHeap == [o \in {} |-> {}]

\* Tab 3: the scenario table is a copy c of the filtered table f
Tab3(a, f, c, uranium, chinese, boost) ==
    [heap |-> ScenarioSteps(c.heap, c.ref, f, uranium, chinese, boost),
     df |-> a, filtered_df |-> f, scenario_df |-> c.ref, error |-> "none"]

\* Variant: the lookup guarded, the run goes on to tab3 with an empty table
Tab2NoStop(a, b, uranium, chinese, boost) ==
    Tab3(a, b.ref, DataFrameCopy(b.heap, b.ref), uranium, chinese, boost)

\* Tab 2: filtered_df[filtered_df['deposit_name'] == selected_deposit].iloc[0]
\* raises IndexError when no deposit passes the filters; the run stops there
Tab2(a, b, uranium, chinese, boost) ==
    IF DOMAIN b.heap[b.ref] = {}
    THEN [heap |-> b.heap, df |-> a, filtered_df |-> b.ref,
          scenario_df |-> NoRef, error |-> "IndexError"]
    ELSE Tab3(a, b.ref, DataFrameCopy(b.heap, b.ref), uranium, chinese, boost)

\* Sidebar: the filtered table is a new object
Sidebar(a, range, own, ura, stat, uranium, chinese, boost) ==
    Tab2(a.ref, NewFrame(a.heap, ApplyFilters(a.heap[a.ref], range, own, ura, stat)),
         uranium, chinese, boost)

\* One run of the script, top to bottom, with the given widget values;
\* load_data() hands out a fresh copy of the memoised table
Script(cached, range, own, ura, stat, uranium, chinese, boost) ==
    Sidebar(NewFrame(EmptyHeap, cached), range, own, ura, stat, uranium, chinese, boost)

\* Variant: the adjusted table of the last run kept between runs (as in
\* st.session_state) and taken as the table of the next run
StripScoreChange(t) ==
    [i \in DOMAIN t |-> [c \in DOMAIN t[i] \ {"score_change"} |-> t[i][c]]]
RerunCarried ==
    \E out \in {Script(IF error = "none" THEN StripScoreChange(heap[scenario_df]) ELSE cache,
                       score_range', ownership_filter', uranium_filter',
                       status_filter', uranium_scenario', chinese_scenario',
                       infra_boost')} :
        /\ heap' = out.heap
        /\ df' = out.df
        /\ filtered_df' = out.filtered_df
        /\ scenario_df' = out.scenario_df
        /\ error' = out.error
        /\ cache' = cache
        /\ UNCHANGED <<sess, store>>

\* select_slider options, in the slider's order
PriceScenarios == <<"Collapse (-50%)", "Decline (-25%)", "Stable", "Rally (+25%)",
                    "Spike (+100%)">>
PricePosition(p) == CHOOSE k \in 1 .. Len(PriceScenarios) : PriceScenarios[k] = p

\* Variant: the price selection wired into the computation, each slider
\* position away from 'Stable' counted as one unit of investment
PriceShift(p) == (PricePosition(p) - PricePosition("Stable")) * Milli
RerunPriced ==
    \E out \in {Script(cache, score_range', ownership_filter', uranium_filter',
                       status_filter', uranium_scenario', chinese_scenario',
                       infra_boost' + PriceShift(price_scenario'))} :
        /\ heap' = out.heap
        /\ df' = out.df
        /\ filtered_df' = out.filtered_df
        /\ scenario_df' = out.scenario_df
        /\ error' = out.error
        /\ cache' = cache
        /\ UNCHANGED <<sess, store>>

\* The script's variables after a run with the primed widget values
Rerun ==
    \E out \in {Script(cache, score_range', ownership_filter', uranium_filter',
                       status_filter', uranium_scenario', chinese_scenario',
                       infra_boost')} :
        /\ heap' = out.heap
        /\ df' = out.df
        /\ filtered_df' = out.filtered_df
        /\ scenario_df' = out.scenario_df
        /\ error' = out.error
        /\ cache' = cache
        /\ UNCHANGED <<sess, store>>

----------------------------------------------------------------------------
(* Tab 3, scenario summary, lines 908-915 *)

\* Variant: the label of the smallest value
idxmin(t, col) ==
    CHOOSE i \in DOMAIN t :
        \A j \in DOMAIN t : t[j][col] > t[i][col] \/ (t[j][col] = t[i][col] /\ i <= j)

\* Series.idxmax(): the index label of the first occurrence of the maximum
idxmax(t, col) ==
    CHOOSE i \in DOMAIN t :
        \A j \in DOMAIN t : t[j][col] < t[i][col] \/ (t[j][col] = t[i][col] /\ i <= j)

\* frame.loc[frame['strategic_score'].idxmax(), 'deposit_name']
Leader(t) == t[idxmax(t, "strategic_score")].deposit_name

----------------------------------------------------------------------------
(* Widgets: options, defaults and the values a session moves them to *)

OwnershipOptions == {"Western Control", "Chinese Exposure"}
UraniumOptions == {"Clear (<100 ppm)", "Blocked (>100 ppm)"}
\* df['status'].unique()
status_options == {cache[i].status : i \in DOMAIN cache}
UraniumScenarios == {"Current (Ban Active)", "Ban Lifted", "Stricter Limits (50 ppm)"}
ChineseScenarios == {"Current Restrictions", "Complete Ban", "Restrictions Relaxed"}

\* Infrastructure slider: 0.0 to 10.0 in steps of 0.5
InfraStep == 500
InfraMax == 10000

\* Score slider: 0 to 100; the model moves its ends over a grid of
\* ScoreStep points
ScoreMax == 100
ScoreStep == 50
ScoreStops == {s \in 0 .. ScoreMax : s % ScoreStep = 0} \cup {ScoreMax}
ScoreRanges == {r \in ScoreStops \X ScoreStops : r[1] <= r[2]}

\* The sidebar of a modelled session: one filter away from its default at a
\* time, and a multiselect with at most MaxDeselected options taken out
MaxDeselected == 1
Deselected(own, ura, stat) ==
    Cardinality(OwnershipOptions \ own) + Cardinality(UraniumOptions \ ura)
    + Cardinality(status_options \ stat)
SidebarInBounds(range, own, ura, stat) ==
    /\ Deselected(own, ura, stat) <= MaxDeselected
    /\ IF range = <<0, ScoreMax>> THEN TRUE ELSE Deselected(own, ura, stat) = 0
    /\ IF own # OwnershipOptions
       THEN ura = UraniumOptions /\ stat = status_options
       ELSE IF ura # UraniumOptions THEN stat = status_options ELSE TRUE

\* A click on a multiselect adds or removes one option
Toggle(sel, opt) == IF opt \in sel THEN sel \ {opt} ELSE sel \cup {opt}

----------------------------------------------------------------------------
(* Initial state: the first run of the script, every widget at its default *)

FirstRun(table) ==
    /\ score_range = <<0, ScoreMax>>
    /\ ownership_filter = OwnershipOptions
    /\ uranium_filter = UraniumOptions
    /\ status_filter = {table[i].status : i \in DOMAIN table}
    /\ uranium_scenario = "Current (Ban Active)"
    /\ chinese_scenario = "Current Restrictions"
    /\ infra_boost = 0
    /\ price_scenario = "Stable"
    /\ cache = table
    /\ \E out \in {Script(table, <<0, ScoreMax>>, OwnershipOptions, UraniumOptions,
                          {table[i].status : i \in DOMAIN table}, "Current (Ban Active)",
                          "Current Restrictions", 0)} :
        /\ heap = out.heap
        /\ df = out.df
        /\ filtered_df = out.filtered_df
        /\ scenario_df = out.scenario_df
        /\ error = out.error

\* No other session on the server
NoSessions ==
    /\ sess = <<>>
    /\ store = <<>>

Init == FirstRun(load_data) /\ NoSessions

----------------------------------------------------------------------------
(* Actions: one widget changes, the script reruns *)

SetScoreRange ==
    \E r \in ScoreRanges :
        /\ r # score_range
        /\ SidebarInBounds(r, ownership_filter, uranium_filter, status_filter)
        /\ score_range' = r
        /\ UNCHANGED <<ownership_filter, uranium_filter, status_filter, uranium_scenario,
                       chinese_scenario, infra_boost, price_scenario>>
        /\ Rerun

ToggleOwnership ==
    \E o \in OwnershipOptions :
        /\ SidebarInBounds(score_range, Toggle(ownership_filter, o), uranium_filter,
                           status_filter)
        /\ ownership_filter' = Toggle(ownership_filter, o)
        /\ UNCHANGED <<score_range, uranium_filter, status_filter, uranium_scenario,
                       chinese_scenario, infra_boost, price_scenario>>
        /\ Rerun

ToggleUranium ==
    \E o \in UraniumOptions :
        /\ SidebarInBounds(score_range, ownership_filter, Toggle(uranium_filter, o),
                           status_filter)
        /\ uranium_filter' = Toggle(uranium_filter, o)
        /\ UNCHANGED <<score_range, ownership_filter, status_filter, uranium_scenario,
                       chinese_scenario, infra_boost, price_scenario>>
        /\ Rerun

ToggleStatus ==
    \E o \in status_options :
        /\ SidebarInBounds(score_range, ownership_filter, uranium_filter,
                           Toggle(status_filter, o))
        /\ status_filter' = Toggle(status_filter, o)
        /\ UNCHANGED <<score_range, ownership_filter, uranium_filter, uranium_scenario,
                       chinese_scenario, infra_boost, price_scenario>>
        /\ Rerun

SetUraniumScenario ==
    \E u \in UraniumScenarios :
        /\ u # uranium_scenario
        /\ uranium_scenario' = u
        /\ UNCHANGED <<score_range, ownership_filter, uranium_filter, status_filter,
                       chinese_scenario, infra_boost, price_scenario>>
        /\ Rerun

SetChineseScenario ==
    \E c \in ChineseScenarios :
        /\ c # chinese_scenario
        /\ chinese_scenario' = c
        /\ UNCHANGED <<score_range, ownership_filter, uranium_filter, status_filter,
                       uranium_scenario, infra_boost, price_scenario>>
        /\ Rerun

\* The slider moves one step up or down; every position is some steps away,
\* and the script reruns at each
SetInfraBoost ==
    \E x \in {infra_boost - InfraStep, infra_boost + InfraStep} :
        /\ x >= 0
        /\ x <= InfraMax
        /\ infra_boost' = x
        /\ UNCHANGED <<score_range, ownership_filter, uranium_filter, status_filter,
                       uranium_scenario, chinese_scenario, price_scenario>>
        /\ Rerun

\* The select_slider moves one position left or right
SetPriceScenario ==
    \E k \in {PricePosition(price_scenario) - 1, PricePosition(price_scenario) + 1} :
        /\ k >= 1
        /\ k <= Len(PriceScenarios)
        /\ price_scenario' = PriceScenarios[k]
        /\ UNCHANGED <<score_range, ownership_filter, uranium_filter, status_filter,
                       uranium_scenario, chinese_scenario, infra_boost>>
        /\ Rerun

Next ==
    \/ SetScoreRange
    \/ ToggleOwnership
    \/ ToggleUranium
    \/ ToggleStatus
    \/ SetUraniumScenario
    \/ SetChineseScenario
    \/ SetInfraBoost
    \/ SetPriceScenario

Spec == Init /\ [][Next]_vars

----------------------------------------------------------------------------
(* The scenario computation as a function of one row: the table is a single *)
(* row, either a deposit of the dataset or a sample row whose scores sit at *)
(* and near the ends of [0, 100] and whose uranium content and Chinese      *)
(* stake sit at and just above the thresholds the code compares with.       *)

EdgeMargin == 5
SampleScores == {0, EdgeMargin * Milli, 50 * Milli, (100 - EdgeMargin) * Milli, 100 * Milli}
SampleUranium == {StricterThreshold, StricterThreshold + 1,
                  UraniumBanThreshold, UraniumBanThreshold + 1}
SampleStakes == {0, 1}

\* strategic_score v, the four adjustable sub-scores at the mirrored value
SampleRow(v, u, k) ==
    WithDerived(
        [deposit_name |-> "Sample",
         latitude |-> 6100,
         longitude |-> -4600,
         owner |-> "Unlicensed",
         discovery_year |-> 2000,
         ice_free_months |-> 4,
         port_distance_km |-> 100,
         resource_mt |-> 1000,
         treo_grade_pct |-> 100,
         heavy_ree_pct |-> 10,
         chinese_stake_pct |-> k,
         status |-> "Prospect",
         uranium_ppm |-> u,
         strategic_score |-> v,
         geological_score |-> v,
         regulatory_score |-> 100 * Milli - v,
         ownership_score |-> 100 * Milli - v,
         infrastructure_score |-> 100 * Milli - v,
         geopolitical_score |-> 100 * Milli - v])

SampleRows ==
    {SampleRow(v, u, k) : v \in SampleScores, u \in SampleUranium, k \in SampleStakes}
    \cup {load_data[i] : i \in DOMAIN load_data}

InitRow == (\E r \in SampleRows : FirstRun([i \in {0} |-> r])) /\ NoSessions

NextRow ==
    \/ SetUraniumScenario
    \/ SetChineseScenario
    \/ SetInfraBoost
    \/ SetPriceScenario

SpecRow == InitRow /\ [][NextRow]_vars

----------------------------------------------------------------------------
(* The scenario computation on investment values that did not pass through *)
(* the slider: lines 843-847 take infra_boost as it is.  The value moves in *)
(* slider steps from OutOfRange steps below 0 to OutOfRange steps above the *)
(* slider's maximum.                                                        *)

OutOfRange == 4
InvestMin == 0 - OutOfRange * InfraStep
InvestMax == InfraMax + OutOfRange * InfraStep

SetInvestment ==
    \E x \in {infra_boost - InfraStep, infra_boost + InfraStep} :
        /\ x >= InvestMin
        /\ x <= InvestMax
        /\ infra_boost' = x
        /\ UNCHANGED <<score_range, ownership_filter, uranium_filter, status_filter,
                       uranium_scenario, chinese_scenario, price_scenario>>
        /\ Rerun

NextInvest ==
    \/ SetUraniumScenario
    \/ SetChineseScenario
    \/ SetInvestment

SpecInvest == InitRow /\ [][NextInvest]_vars

----------------------------------------------------------------------------
(* Several sessions on one server.  Streamlit runs the script of each       *)
(* session in a thread of its own in one process; the value memoised by    *)
(* st.cache_data is the one thing the sessions share, and load_data() hands *)
(* each caller a copy of it.  A run is taken statement block by statement   *)
(* block, and the blocks of different sessions interleave freely.  A widget *)
(* change starts a new run with an empty namespace, also in the middle of a *)
(* run.  The sidebar stays at its defaults.                                 *)

Sessions == {"A", "B"}
Server == "server"

\* Objects are named by the owner and the variable they were made for
NoObject == <<>>
CacheSlot == <<Server, "cache">>
DfSlot(s) == <<s, "df">>
FilteredSlot(s) == <<s, "filtered_df">>

\* Variant: the scenario table kept in one object of the process, shared by
\* the sessions
ScenarioSlotShared(s) == <<Server, "scenario_df">>

\* scenario_df = filtered_df.copy(): an object of the session's own run
ScenarioSlot(s) == <<s, "scenario_df">>

Bind(st, slot, t) == [o \in DOMAIN st \cup {slot} |-> IF o = slot THEN t ELSE st[o]]
Release(st, s) == [o \in {x \in DOMAIN st : x[1] # s} |-> st[o]]

\* The investment values the sessions move over
SessionBoostSteps == 1

NewSession ==
    [pc |-> "load",
     uranium_scenario |-> "Current (Ban Active)",
     chinese_scenario |-> "Current Restrictions",
     infra_boost |-> 0,
     df |-> NoObject, filtered_df |-> NoObject, scenario_df |-> NoObject,
     error |-> "none"]

InitSessions ==
    /\ FirstRun(load_data)
    /\ sess = [s \in Sessions |-> NewSession]
    /\ store = Bind(<<>>, CacheSlot, load_data)

\* A widget change: the run in progress, if any, is dropped with its
\* objects and the script starts again
Restart(s, field, value) ==
    /\ sess' = [sess EXCEPT ![s] = [NewSession EXCEPT
                    !.uranium_scenario = IF field = "uranium_scenario" THEN value
                                         ELSE sess[s].uranium_scenario,
                    !.chinese_scenario = IF field = "chinese_scenario" THEN value
                                         ELSE sess[s].chinese_scenario,
                    !.infra_boost = IF field = "infra_boost" THEN value
                                    ELSE sess[s].infra_boost]]
    /\ store' = Release(store, s)
    /\ UNCHANGED one_session

SessionSetUranium ==
    \E s \in Sessions : \E u \in UraniumScenarios :
        /\ u # sess[s].uranium_scenario
        /\ Restart(s, "uranium_scenario", u)

SessionSetChinese ==
    \E s \in Sessions : \E c \in ChineseScenarios :
        /\ c # sess[s].chinese_scenario
        /\ Restart(s, "chinese_scenario", c)

SessionSetInfra ==
    \E s \in Sessions :
        \E x \in {sess[s].infra_boost - InfraStep, sess[s].infra_boost + InfraStep} :
            /\ x >= 0
            /\ x <= SessionBoostSteps * InfraStep
            /\ Restart(s, "infra_boost", x)

\* One block of the script in session s, at position pc of its run: the
\* store becomes st
Step(s, pc, st) ==
    /\ sess[s].pc = pc
    /\ store' = st
    /\ UNCHANGED one_session

\* df = load_data(): a copy of the memoised table
SessionLoad ==
    \E s \in Sessions :
        /\ Step(s, "load", Bind(store, DfSlot(s), store[CacheSlot]))
        /\ sess' = [sess EXCEPT ![s].pc = "filter", ![s].df = DfSlot(s)]

\* filtered_df = df[...], every sidebar widget at its default
SessionFilter ==
    \E s \in Sessions :
        /\ Step(s, "filter",
                Bind(store, FilteredSlot(s),
                     ApplyFilters(store[sess[s].df], <<0, ScoreMax>>, OwnershipOptions,
                                  UraniumOptions,
                                  {store[sess[s].df][i].status : i \in DOMAIN store[sess[s].df]})))
        /\ sess' = [sess EXCEPT ![s].pc = "copy", ![s].filtered_df = FilteredSlot(s)]

\* tab2's lookup, then scenario_df = filtered_df.copy()
SessionCopy ==
    \E s \in Sessions :
        /\ Step(s, "copy",
                IF DOMAIN store[sess[s].filtered_df] = {} THEN store
                ELSE Bind(store, ScenarioSlot(s), store[sess[s].filtered_df]))
        /\ sess' = IF DOMAIN store[sess[s].filtered_df] = {}
                   THEN [sess EXCEPT ![s].pc = "idle", ![s].error = "IndexError"]
                   ELSE [sess EXCEPT ![s].pc = "uranium", ![s].scenario_df = ScenarioSlot(s)]

\* Uranium ban impact, written through scenario_df
SessionUranium ==
    \E s \in Sessions :
        /\ Step(s, "uranium",
                [store EXCEPT ![sess[s].scenario_df] = UraniumImpact(@, sess[s].uranium_scenario)])
        /\ sess' = [sess EXCEPT ![s].pc = "chinese"]

\* Chinese investment impact
SessionChinese ==
    \E s \in Sessions :
        /\ Step(s, "chinese",
                [store EXCEPT ![sess[s].scenario_df] = ChineseImpact(@, sess[s].chinese_scenario)])
        /\ sess' = [sess EXCEPT ![s].pc = "infra"]

\* Infrastructure boost
SessionInfra ==
    \E s \in Sessions :
        /\ Step(s, "infra",
                [store EXCEPT ![sess[s].scenario_df] = InfraBoost(@, sess[s].infra_boost)])
        /\ sess' = [sess EXCEPT ![s].pc = "clip"]

\* The clip loop
SessionClip ==
    \E s \in Sessions :
        /\ Step(s, "clip", [store EXCEPT ![sess[s].scenario_df] = ClipCols(@)])
        /\ sess' = [sess EXCEPT ![s].pc = "change"]

\* score_change, the last statement that writes a table
SessionChange ==
    \E s \in Sessions :
        /\ Step(s, "change",
                [store EXCEPT ![sess[s].scenario_df] = ScoreChange(@, store[sess[s].filtered_df])])
        /\ sess' = [sess EXCEPT ![s].pc = "idle"]

NextSessions ==
    \/ SessionSetUranium
    \/ SessionSetChinese
    \/ SessionSetInfra
    \/ SessionLoad
    \/ SessionFilter
    \/ SessionCopy
    \/ SessionUranium
    \/ SessionChinese
    \/ SessionInfra
    \/ SessionClip
    \/ SessionChange

SpecSessions == InitSessions /\ [][NextSessions]_vars

----------------------------------------------------------------------------
(* Properties.  What the last run left behind: *)

Ran == error = "none"
Adjusted == heap[scenario_df]
Baseline == heap[filtered_df]
Loaded == heap[df]

Hundred == 100 * Milli
Clamp(v) == IF v < 0 THEN 0 ELSE IF v > Hundred THEN Hundred ELSE v

IdentityScenario ==
    /\ uranium_scenario = "Current (Ban Active)"
    /\ chinese_scenario = "Current Restrictions"
    /\ infra_boost = 0

\* C1: in the adjusted table every row's regulatory, ownership,
\* infrastructure, geopolitical and strategic score lies in [0, 100],
\* whatever the scenario configuration.
C1_ClampInvariant ==
    Ran => \A i \in DOMAIN Adjusted :
        \A col \in {"regulatory_score", "ownership_score", "infrastructure_score",
                    "geopolitical_score", "strategic_score"} :
            Adjusted[i][col] >= 0 /\ Adjusted[i][col] <= Hundred

\* C1 witness: stricter uranium limits take Kvanefjeld's regulatory score of
\* 20 down by 30, and the adjusted table holds 0.
C1_Witness ==
    /\ Ran
    /\ uranium_scenario = "Stricter Limits (50 ppm)"
    /\ \E i \in DOMAIN Adjusted :
        /\ Baseline[i].uranium_ppm > 50
        /\ Baseline[i].regulatory_score < 30 * Milli
        /\ Adjusted[i].regulatory_score = 0

\* C2: after any sequence of reruns the table load_data returned, the
\* memoised table and the filtered table hold the values of the load: the
\* filtered table is a selection of unchanged rows of the dataset (none of
\* them carrying a score_change), and only the scenario copy is written.
C2_BaselineUnchanged ==
    /\ cache = load_data
    /\ Loaded = load_data
    /\ DOMAIN Baseline \subseteq DOMAIN load_data
    /\ \A i \in DOMAIN Baseline : Baseline[i] = load_data[i]

\* C2 witness: a run on a narrowed table whose scenario copy differs from
\* the rows it was copied from.
C2_Witness ==
    /\ Ran
    /\ DOMAIN Baseline # DOMAIN load_data
    /\ \E i \in DOMAIN Adjusted :
        Adjusted[i].strategic_score # load_data[i].strategic_score

\* C3: with the uranium policy and the Chinese investment policy at their
\* current settings and no investment, every column of every adjusted row
\* equals the baseline row's and score_change is 0.
C3_IdentityScenario ==
    (Ran /\ IdentityScenario) =>
        /\ DOMAIN Adjusted = DOMAIN Baseline
        /\ \A i \in DOMAIN Adjusted :
            /\ \A f \in DOMAIN Baseline[i] : Adjusted[i][f] = Baseline[i][f]
            /\ Adjusted[i].score_change = 0

\* C3 witness: the identity scenario computed again after the session has
\* been through another configuration (here: with the price moved and the
\* table narrowed).
C3_Witness ==
    /\ Ran
    /\ IdentityScenario
    /\ price_scenario # "Stable"
    /\ DOMAIN Baseline # DOMAIN load_data

----------------------------------------------------------------------------
(* The deltas of section 4.1 of the specification, per row b of the        *)
(* baseline, in thousandths of a point                                     *)

UraniumRegulatory(b) ==
    IF uranium_scenario = "Ban Lifted" /\ b.uranium_ppm > 100 THEN 40000
    ELSE IF uranium_scenario = "Stricter Limits (50 ppm)" /\ b.uranium_ppm > 50 THEN -30000
    ELSE 0
UraniumStrategic(b) ==
    IF uranium_scenario = "Ban Lifted" /\ b.uranium_ppm > 100 THEN 15000
    ELSE IF uranium_scenario = "Stricter Limits (50 ppm)" /\ b.uranium_ppm > 50 THEN -10000
    ELSE 0
ChineseOwnership(b) ==
    IF chinese_scenario = "Complete Ban" /\ b.chinese_stake_pct > 0 THEN -20000 ELSE 0
ChineseStrategic(b) ==
    IF chinese_scenario = "Complete Ban" /\ b.chinese_stake_pct > 0 THEN -8000 ELSE 0
ChineseGeopolitical ==
    IF chinese_scenario = "Restrictions Relaxed" THEN -10000 ELSE 0
InfraPoints ==
    IF infra_boost <= 0 THEN 0
    ELSE IF 3 * infra_boost < 20000 THEN 3 * infra_boost ELSE 20000
InfraStrategic == (15 * InfraPoints) \div 100
NominalStrategic(b) == UraniumStrategic(b) + ChineseStrategic(b) + InfraStrategic

\* C4: every clamped score of the adjusted table is the baseline value plus
\* all the deltas that apply, clamped to [0, 100] once, after the sum.
C4_ClampOnce ==
    Ran => \A i \in DOMAIN Adjusted :
        LET a == Adjusted[i]
            b == Baseline[i]
        IN  /\ a.regulatory_score = Clamp(b.regulatory_score + UraniumRegulatory(b))
            /\ a.ownership_score = Clamp(b.ownership_score + ChineseOwnership(b))
            /\ a.infrastructure_score = Clamp(b.infrastructure_score + InfraPoints)
            /\ a.geopolitical_score = Clamp(b.geopolitical_score + ChineseGeopolitical)
            /\ a.strategic_score = Clamp(b.strategic_score + NominalStrategic(b))

\* C4 witness: the ban lifted and Chinese investment banned on a row whose
\* strategic score passes 100 after the first delta; the adjusted score is
\* 100, where a clamp between the steps would have left 92 to 95.
C4_Witness ==
    /\ Ran
    /\ uranium_scenario = "Ban Lifted"
    /\ chinese_scenario = "Complete Ban"
    /\ \E i \in DOMAIN Adjusted :
        /\ Baseline[i].uranium_ppm > 100
        /\ Baseline[i].chinese_stake_pct > 0
        /\ Baseline[i].strategic_score < Hundred
        /\ Baseline[i].strategic_score + 15000 > Hundred
        /\ Adjusted[i].strategic_score = Hundred

\* C5: with the uranium ban lifted, exactly the rows with uranium_ppm > 100
\* get +40 on regulatory_score and +15 on strategic_score before the clamp;
\* a row at or below 100 ppm gets nothing from the uranium policy.
C5_BanLifted ==
    (Ran /\ uranium_scenario = "Ban Lifted") => \A i \in DOMAIN Adjusted :
        LET a == Adjusted[i]
            b == Baseline[i]
            others == ChineseStrategic(b) + InfraStrategic
        IN  IF b.uranium_ppm > 100
            THEN /\ a.regulatory_score = Clamp(b.regulatory_score + 40000)
                 /\ a.strategic_score = Clamp(b.strategic_score + 15000 + others)
            ELSE /\ a.regulatory_score = b.regulatory_score
                 /\ a.strategic_score = Clamp(b.strategic_score + others)

\* C5 witness: the ban lifted alone on the row with 285 ppm, regulatory 20
\* and strategic 52, which end at 60 and 67.
C5_Witness ==
    /\ Ran
    /\ uranium_scenario = "Ban Lifted"
    /\ chinese_scenario = "Current Restrictions"
    /\ infra_boost = 0
    /\ \E i \in DOMAIN Adjusted :
        /\ Baseline[i].uranium_ppm = 285
        /\ Baseline[i].regulatory_score = 20000
        /\ Baseline[i].strategic_score = 52000
        /\ Adjusted[i].regulatory_score = 60000
        /\ Adjusted[i].strategic_score = 67000

\* C6: with stricter limits, exactly the rows with uranium_ppm > 50 get -30
\* on regulatory_score and -10 on strategic_score, floored at 0; a row at or
\* below 50 ppm gets nothing from the uranium policy.
C6_StricterLimits ==
    (Ran /\ uranium_scenario = "Stricter Limits (50 ppm)") =>
        \A i \in DOMAIN Adjusted :
            LET a == Adjusted[i]
                b == Baseline[i]
                others == ChineseStrategic(b) + InfraStrategic
            IN  IF b.uranium_ppm > 50
                THEN /\ a.regulatory_score = Max(0, b.regulatory_score - 30000)
                     /\ a.strategic_score = Clamp(b.strategic_score - 10000 + others)
                ELSE /\ a.regulatory_score = b.regulatory_score
                     /\ a.strategic_score = Clamp(b.strategic_score + others)

\* C6 witness: stricter limits alone on the row with 220 ppm, regulatory 30
\* and strategic 48, which end at 0 and 38.
C6_Witness ==
    /\ Ran
    /\ uranium_scenario = "Stricter Limits (50 ppm)"
    /\ chinese_scenario = "Current Restrictions"
    /\ infra_boost = 0
    /\ \E i \in DOMAIN Adjusted :
        /\ Baseline[i].uranium_ppm = 220
        /\ Baseline[i].regulatory_score = 30000
        /\ Baseline[i].strategic_score = 48000
        /\ Adjusted[i].regulatory_score = 0
        /\ Adjusted[i].strategic_score = 38000

\* C7: with the restrictions relaxed, geopolitical_score goes down by 10
\* (clamped) on every row, rows without a Chinese stake included, and the
\* policy changes no other score: ownership_score keeps its baseline value
\* and strategic_score gets the uranium and infrastructure deltas only.
C7_Relaxed ==
    (Ran /\ chinese_scenario = "Restrictions Relaxed") => \A i \in DOMAIN Adjusted :
        LET a == Adjusted[i]
            b == Baseline[i]
        IN  /\ a.geopolitical_score = Clamp(b.geopolitical_score - 10000)
            /\ a.ownership_score = b.ownership_score
            /\ a.strategic_score
                 = Clamp(b.strategic_score + UraniumStrategic(b) + InfraStrategic)
            /\ a.regulatory_score = Clamp(b.regulatory_score + UraniumRegulatory(b))
            /\ a.infrastructure_score = Clamp(b.infrastructure_score + InfraPoints)

\* C7 witness: the relaxed policy on a row without a Chinese stake, whose
\* geopolitical score is 10 lower than the baseline's.
C7_Witness ==
    /\ Ran
    /\ chinese_scenario = "Restrictions Relaxed"
    /\ \E i \in DOMAIN Adjusted :
        /\ Baseline[i].chinese_stake_pct = 0
        /\ Adjusted[i].geopolitical_score = Baseline[i].geopolitical_score - 10000

\* C8: with Chinese investment banned, exactly the rows with a stake above 0
\* get -20 on ownership_score and -8 on strategic_score before the clamp; a
\* row without a stake gets nothing from this policy.
C8_CompleteBan ==
    (Ran /\ chinese_scenario = "Complete Ban") => \A i \in DOMAIN Adjusted :
        LET a == Adjusted[i]
            b == Baseline[i]
            others == UraniumStrategic(b) + InfraStrategic
        IN  /\ a.geopolitical_score = b.geopolitical_score
            /\ IF b.chinese_stake_pct > 0
               THEN /\ a.ownership_score = Clamp(b.ownership_score - 20000)
                    /\ a.strategic_score = Clamp(b.strategic_score - 8000 + others)
               ELSE /\ a.ownership_score = b.ownership_score
                    /\ a.strategic_score = Clamp(b.strategic_score + others)

\* C8 witness: the ban on a row with a stake, ownership 20 lower and
\* strategic 8 lower than the baseline's, next to nothing else changing it.
C8_Witness ==
    /\ Ran
    /\ chinese_scenario = "Complete Ban"
    /\ uranium_scenario = "Current (Ban Active)"
    /\ infra_boost = 0
    /\ \E i \in DOMAIN Adjusted :
        /\ Baseline[i].chinese_stake_pct > 0
        /\ Adjusted[i].ownership_score = Baseline[i].ownership_score - 20000
        /\ Adjusted[i].strategic_score = Baseline[i].strategic_score - 8000

\* C9: an investment x > 0 adds infra_impact = min(3 * x, 20) to
\* infrastructure_score and 0.15 * infra_impact to strategic_score on every
\* row before the clamp; from x = 20/3 on the impact is the cap of 20; and
\* x = 8.0 alone takes a row with infrastructure 65 and strategic 52 to 85
\* and 55.0.
C9_Infrastructure ==
    (Ran /\ infra_boost > 0) =>
        LET impact == IF 3 * infra_boost >= 20000 THEN 20000 ELSE 3 * infra_boost
        IN  \A i \in DOMAIN Adjusted :
            LET a == Adjusted[i]
                b == Baseline[i]
            IN  /\ a.infrastructure_score = Clamp(b.infrastructure_score + impact)
                /\ a.strategic_score
                     = Clamp(b.strategic_score + UraniumStrategic(b) + ChineseStrategic(b)
                             + (15 * impact) \div 100)
                /\ (/\ infra_boost = 8000
                    /\ uranium_scenario = "Current (Ban Active)"
                    /\ chinese_scenario = "Current Restrictions"
                    /\ b.infrastructure_score = 65000
                    /\ b.strategic_score = 52000)
                   => a.infrastructure_score = 85000 /\ a.strategic_score = 55000

\* C9 witness: 8.0 invested, nothing else changed, on the row with
\* infrastructure 65 and strategic 52.
C9_Witness ==
    /\ Ran
    /\ infra_boost = 8000
    /\ uranium_scenario = "Current (Ban Active)"
    /\ chinese_scenario = "Current Restrictions"
    /\ \E i \in DOMAIN Adjusted :
        /\ Baseline[i].infrastructure_score = 65000
        /\ Baseline[i].strategic_score = 52000
        /\ Adjusted[i].infrastructure_score = 85000
        /\ Adjusted[i].strategic_score = 55000

\* C10: score_change of a row is its adjusted (clamped) strategic_score
\* minus its baseline strategic_score, and so is smaller in magnitude than
\* the sum of the deltas whenever that sum left [0, 100].
C10_ScoreChange ==
    Ran => \A i \in DOMAIN Adjusted :
        LET a == Adjusted[i]
            b == Baseline[i]
            raw == b.strategic_score + NominalStrategic(b)
        IN  /\ a.score_change = a.strategic_score - b.strategic_score
            /\ (raw < 0 \/ raw > Hundred)
                 => Abs(a.score_change) < Abs(NominalStrategic(b))

\* C10 witness: a sum of deltas that passes 100, and a score_change that
\* stops at the distance to 100.
C10_Witness ==
    /\ Ran
    /\ \E i \in DOMAIN Adjusted :
        /\ Baseline[i].strategic_score + NominalStrategic(Baseline[i]) > Hundred
        /\ Adjusted[i].score_change = Hundred - Baseline[i].strategic_score
        /\ Adjusted[i].score_change < NominalStrategic(Baseline[i])

----------------------------------------------------------------------------
\* The deposit names of a table, and how many rows carry a name
DepositNames(t) == {t[i].deposit_name : i \in DOMAIN t}
RowsNamed(t, n) == {i \in DOMAIN t : t[i].deposit_name = n}

\* C11: the adjusted table has exactly one row for each deposit name of the
\* table the scenario is computed on (the filtered table) and no other row:
\* the same index labels, each with the name it had, no name twice.
C11_RowIdentity ==
    Ran => /\ DOMAIN Adjusted = DOMAIN Baseline
           /\ \A i \in DOMAIN Adjusted : Adjusted[i].deposit_name = Baseline[i].deposit_name
           /\ DepositNames(Adjusted) = DepositNames(Baseline)
           /\ \A n \in DepositNames(Baseline) : Cardinality(RowsNamed(Adjusted, n)) = 1

\* C11 witness: a filter keeps some of the deposits, a masked scenario
\* statement changes some of the kept rows and leaves others alone.
C11_Witness ==
    /\ Ran
    /\ DOMAIN Baseline # DOMAIN Loaded
    /\ uranium_scenario = "Ban Lifted"
    /\ \E i, j \in DOMAIN Adjusted : Adjusted[i].score_change > 0 /\ Adjusted[j].score_change = 0

----------------------------------------------------------------------------
\* One run of the script on the tables of load_data with the widget values
\* of the current state, and nothing else
FreshRun ==
    Script(load_data, score_range, ownership_filter, uranium_filter, status_filter,
           uranium_scenario, chinese_scenario, infra_boost)

\* C12: after any sequence of widget changes the adjusted table is the one
\* a single run computes from the loaded data with the current widget
\* values alone: nothing of earlier configurations is left in it.
C12_Stateless ==
    \E fresh \in {FreshRun} :
        /\ error = fresh.error
        /\ Ran => Adjusted = fresh.heap[fresh.scenario_df]

\* C12 witness: a configuration that takes at least four widget changes to
\* reach (the slider passes 0.5 on its way to 1.0), each with its own run.
C12_Witness ==
    /\ Ran
    /\ uranium_scenario = "Stricter Limits (50 ppm)"
    /\ chinese_scenario = "Complete Ban"
    /\ infra_boost = 2 * InfraStep
    /\ \E i \in DOMAIN Adjusted : Adjusted[i].score_change = -18 * Milli + StrategicShare(InfraImpact(infra_boost))

----------------------------------------------------------------------------
\* C13: two configurations that differ only in the price selection have
\* the same tables: a run after a change of price_scenario alone leaves
\* every table, score_change included, as the run before left it.
C13_PriceNoEffect ==
    [][(/\ price_scenario' # price_scenario
        /\ UNCHANGED <<score_range, ownership_filter, uranium_filter, status_filter,
                       uranium_scenario, chinese_scenario, infra_boost>>)
       => UNCHANGED <<heap, df, filtered_df, scenario_df, error, cache>>]_vars

\* C13 witness: the price slider at its far end under a scenario that
\* moves scores.
C13_Witness ==
    /\ Ran
    /\ price_scenario = "Spike (+100%)"
    /\ chinese_scenario = "Complete Ban"
    /\ \E i \in DOMAIN Adjusted : Adjusted[i].score_change < 0

----------------------------------------------------------------------------
\* The investment brought to the nearest end of [0, 10]
ClampInvestment(v) == Min(Max(v, 0), InfraMax)

\* The run of the script with the investment clamped, all else as it is
ClampedRun ==
    Script(cache, score_range, ownership_filter, uranium_filter, status_filter,
           uranium_scenario, chinese_scenario, ClampInvestment(infra_boost))

\* C14: for every investment value, inside [0, 10] or not, the scenario
\* computation ends without an error and its adjusted table is the one
\* computed for the value clamped to [0, 10].
C14_InvestmentClamped ==
    /\ error = "none"
    /\ \E clamped \in {ClampedRun} : Adjusted = clamped.heap[clamped.scenario_df]

\* C14 witness: an investment above 10 whose row gets the 20 points that
\* 10 gives.
C14_Witness ==
    /\ Ran
    /\ infra_boost > InfraMax
    /\ \E i \in DOMAIN Adjusted :
        Adjusted[i].infrastructure_score = Baseline[i].infrastructure_score + 20 * Milli

----------------------------------------------------------------------------
\* The tables the program holds after the last run
Tables == {heap[o] : o \in DOMAIN heap} \cup {cache}

\* The derived columns of a row that do not depend on a score
DerivedFromSources(r) ==
    /\ (r.ownership_type = "Chinese Exposure") <=> (r.chinese_stake_pct > 0)
    /\ (r.ownership_type = "Western Control") <=> ~(r.chinese_stake_pct > 0)
    /\ (r.uranium_status = "Blocked (>100 ppm)") <=> (r.uranium_ppm > 100)
    /\ (r.uranium_status = "Clear (<100 ppm)") <=> ~(r.uranium_ppm > 100)
    /\ r.contained_treo_kt = ContainedTreoKt(r.resource_mt, r.treo_grade_pct)
    /\ r.contained_hree_kt = ContainedHreeKt(r.contained_treo_kt, r.heavy_ree_pct)

\* C15: in every table the program holds, each derived column of a row is
\* its defining function of that row's current source fields; in
\* particular score_category is the bin of the row's strategic_score.
C15_DerivedConsistent ==
    \A t \in Tables : \A i \in DOMAIN t :
        /\ DerivedFromSources(t[i])
        /\ t[i].score_category = ScoreCategory(t[i].strategic_score)

----------------------------------------------------------------------------
\* The adjusted table of one run of the script, alone on the server, with
\* the scenario widgets of session s and the sidebar at its defaults
SingleSessionRun(s) ==
    Script(load_data, <<0, ScoreMax>>, OwnershipOptions, UraniumOptions,
           {load_data[i].status : i \in DOMAIN load_data},
           sess[s].uranium_scenario, sess[s].chinese_scenario, sess[s].infra_boost)
SingleSessionTable(s) ==
    CHOOSE t \in {out.heap[out.scenario_df] : out \in {SingleSessionRun(s)}} : TRUE

\* C16: with several sessions running in any interleaving, the memoised
\* table stays as loaded, no two sessions hold the same object, and a
\* session that has finished its run holds the loaded rows as its baseline
\* and, as its adjusted table, the table a single session computes for
\* that session's own configuration.
C16_SessionIsolation ==
    /\ store[CacheSlot] = load_data
    /\ \A s \in Sessions : \A t \in Sessions \ {s} :
        {sess[s].df, sess[s].filtered_df, sess[s].scenario_df}
            \cap {sess[t].df, sess[t].filtered_df, sess[t].scenario_df} \subseteq {NoObject}
    /\ \A s \in Sessions :
        sess[s].pc = "idle" =>
            /\ sess[s].error = "none"
            /\ store[sess[s].df] = load_data
            /\ store[sess[s].filtered_df] = load_data
            /\ store[sess[s].scenario_df] = SingleSessionTable(s)

\* C16 witness: session B has finished a run under stricter uranium limits
\* (Kvanefjeld at 42) while session A, with the ban lifted, is in the
\* middle of its run and has already written its own scenario table
\* (Kvanefjeld at 67).
C16_Witness ==
    /\ sess["B"].pc = "idle"
    /\ sess["B"].uranium_scenario = "Stricter Limits (50 ppm)"
    /\ store[sess["B"].scenario_df][1].strategic_score = 42 * Milli
    /\ sess["A"].pc = "infra"
    /\ sess["A"].uranium_scenario = "Ban Lifted"
    /\ store[sess["A"].scenario_df][1].strategic_score = 67 * Milli

----------------------------------------------------------------------------
\* The two leaders of the scenario summary and the warning shown when they
\* differ; they are computed from the two tables as the last run left them
baseline_leader == Leader(Baseline)
scenario_leader == Leader(Adjusted)
LeadershipChange == baseline_leader # scenario_leader

Tanbreez == "Tanbreez (Kringlerne)"

\* C17: whenever Tanbreez is in the table the scenario runs on, it is the
\* leader before and after the adjustment, every other row's adjusted
\* strategic_score is strictly below its own, and the leadership-change
\* warning is not shown; a leadership change occurs only in runs whose
\* filters exclude Tanbreez.
C17_TanbreezLeads ==
    Ran =>
        /\ Tanbreez \in DepositNames(Baseline) =>
                /\ baseline_leader = Tanbreez
                /\ scenario_leader = Tanbreez
                /\ ~LeadershipChange
                /\ \A i \in DOMAIN Adjusted :
                        Adjusted[i].deposit_name # Tanbreez =>
                            \A k \in RowsNamed(Adjusted, Tanbreez) :
                                Adjusted[i].strategic_score < Adjusted[k].strategic_score
        /\ LeadershipChange => Tanbreez \notin DepositNames(Baseline)

\* C17 witness: the ban lifted and the investment at its cap bring Gardar
\* South to 80, the baseline score of Tanbreez, which stands at 83 itself.
C17_Witness ==
    /\ Ran
    /\ uranium_scenario = "Ban Lifted"
    /\ scenario_leader = Tanbreez
    /\ \E i, k \in DOMAIN Adjusted :
        /\ Adjusted[k].deposit_name = Tanbreez
        /\ Adjusted[k].strategic_score = 83 * Milli
        /\ Adjusted[i].deposit_name = "Gardar South"
        /\ Adjusted[i].strategic_score = 80 * Milli

----------------------------------------------------------------------------
\* C18: a run whose filters exclude every deposit stops with the IndexError
\* of tab2's primary-deposit lookup: no scenario table is made, so nothing
\* of tab3 runs on an empty table; every other run reaches tab3.
C18_EmptyFilterStops ==
    IF DOMAIN Baseline = {}
    THEN /\ error = "IndexError"
         /\ scenario_df = NoRef
         /\ DOMAIN heap = {df, filtered_df}
    ELSE /\ Ran
         /\ scenario_df \in DOMAIN heap
         /\ DOMAIN Adjusted # {}

\* C18 witness: the score slider at 0..0 excludes every deposit, and the
\* run has stopped.
C18_Witness ==
    /\ score_range = <<0, 0>>
    /\ DOMAIN Baseline = {}
    /\ error = "IndexError"
    /\ scenario_df = NoRef

----------------------------------------------------------------------------
\* The columns the scenario computation may change
AdjustedCols == {"regulatory_score", "ownership_score", "infrastructure_score",
                 "geopolitical_score", "strategic_score"}

\* C19: a row of the adjusted table has the columns of its baseline row
\* and score_change, and every column but the five adjusted scores
\* (geological_score, uranium_ppm, chinese_stake_pct, deposit_name, the
\* location, owner, resource and derived columns) holds its baseline value.
C19_FrameEffect ==
    Ran => \A i \in DOMAIN Adjusted :
        /\ DOMAIN Adjusted[i] = DOMAIN Baseline[i] \cup {"score_change"}
        /\ "score_change" \notin DOMAIN Baseline[i]
        /\ \A c \in DOMAIN Baseline[i] \ AdjustedCols : Adjusted[i][c] = Baseline[i][c]

\* C19 witness: the ban lifted, restrictions relaxed and money invested
\* change four of the five scores of a row above 100 ppm, geological_score
\* staying where it was.
C19_Witness ==
    /\ Ran
    /\ uranium_scenario = "Ban Lifted"
    /\ chinese_scenario = "Restrictions Relaxed"
    /\ infra_boost > 0
    /\ \E i \in DOMAIN Adjusted :
        /\ Adjusted[i].regulatory_score # Baseline[i].regulatory_score
        /\ Adjusted[i].geopolitical_score # Baseline[i].geopolitical_score
        /\ Adjusted[i].infrastructure_score # Baseline[i].infrastructure_score
        /\ Adjusted[i].strategic_score # Baseline[i].strategic_score
        /\ Adjusted[i].geological_score = Baseline[i].geological_score

====
